---- MODULE Spec2Model ----
(***************************************************************************)
(* PyTorchModel (lume_model/torch/model.py): the evaluation pipeline       *)
(*   evaluate = _prepare_outputs . _parse_outputs . _transform_outputs     *)
(*              . model . _transform_inputs . _arrange_inputs              *)
(*              . _prepare_inputs                                          *)
(* together with the transformer-list setters and the device change to().  *)
(*                                                                         *)
(* Conventions.  An optional value (None or a value) is <<>> or <<v>>.     *)
(* A per-variable tensor is [shape, data] with data flat; a tensor whose   *)
(* last axis is the feature/output axis is [shape, rows], one row per      *)
(* batch record.  Doubles are modelled by integers.                        *)
(***************************************************************************)
EXTENDS Integers, Sequences, FiniteSets, TLC

VARIABLES
    device,               \* self.device
    model_device,         \* device the weights of self._model are on
    default_device,       \* device self.default_values is on
    transformer_device,   \* device of every transformer object
    input_variables,      \* self.input_variables[name].value
    output_variables,     \* self.output_variables[name].value
    variable_type,        \* self.output_variables[name].variable_type
    image_shape,          \* self.output_variables[name].shape
    limit_variable,       \* self.output_variables[name].x_min_variable, ...
    limits,               \* self.output_variables[name].x_min, x_max, y_min, y_max
    output_format,        \* self._output_format["type"]
    feature_order,        \* self._feature_order
    output_order,         \* self._output_order
    model_out_width,      \* width of the tensor self._model produces
    model_out_grad,       \* whether the tensor self._model produces requires grad
    lists,                \* the list objects holding transformers, by identity
    input_transformers,   \* per instance: the list object _input_transformers is
    output_transformers,  \* per instance: the list object _output_transformers is
    call                  \* the latest evaluate call: its argument and what it returned

vars == <<device, model_device, default_device, transformer_device,
          input_variables, output_variables, variable_type, output_format,
          feature_order, output_order, model_out_width, lists,
          input_transformers, output_transformers, call,
          image_shape, limit_variable, limits, model_out_grad>>

----------------------------------------------------------------------------
(* Bounds of the model *)

\* input scalars are drawn from 0..MaxVal
MaxVal == 1
\* supplied tensors have at most one axis, of length 1..MaxBatch
MaxBatch == 2
\* a transformer list holds at most MaxChain transformers
MaxChain == 2
\* the loaded network produces rows of 1..MaxWidth columns
MaxWidth == 3

----------------------------------------------------------------------------
(* Generic helpers *)

None == <<>>
Some(v) == <<v>>

Range(s) == {s[i] : i \in 1..Len(s)}

\* list.index(x): position of the first occurrence
Index(s, x) == CHOOSE i \in 1..Len(s) : s[i] = x /\ \A j \in 1..(i - 1) : s[j] # x

Front(s) == SubSeq(s, 1, Len(s) - 1)

RECURSIVE Product(_)
Product(shape) == IF shape = <<>> THEN 1 ELSE shape[1] * Product(Tail(shape))

----------------------------------------------------------------------------
(* The configuration the pipeline is constructed from *)

\* iteration order of the input_variables / output_variables dictionaries
InputNames == <<"x1", "x2">>
OutputNames == <<"y1", "y2">>

\* var.default of every input variable
default == [x1 |-> 1, x2 |-> 2]

\* self.default_values: the defaults in the dictionary's iteration order
default_values == [i \in 1..Len(InputNames) |-> default[InputNames[i]]]

Values == 0..MaxVal
Devices == {"cpu", "cuda"}
Instances == {"m1", "m2"}
Transformers == {"T1", "T2"}

\* AffineInputTransform(coefficient, offset) of each transformer object
coefficient == [T1 |-> 1, T2 |-> -1]
offset == [T1 |-> -1, T2 |-> 0]

\* transformer(x): forward mapping, elementwise
transform(t, x) == (x - offset[t]) \div coefficient[t]
\* transformer.untransform(x): inverse mapping, elementwise
untransform(t, x) == coefficient[t] * x + offset[t]

\* The loaded network: an opaque deterministic map from one feature row to
\* one output row of the given width (injective on rows of equal width).
RECURSIVE WeightedSum(_, _, _)
WeightedSum(row, i, j) ==
    IF i > Len(row) THEN j ELSE (i + j) * row[i] + WeightedSum(row, i + 1, j)

_model_row(row, width) == [j \in 1..width |-> WeightedSum(row, 1, j)]

\* self._model(features); the network expects one column per input variable
_model(x, width) ==
    IF x.shape[Len(x.shape)] # Len(InputNames)
    THEN [status |-> "RuntimeError", tensor |-> [shape |-> <<>>, rows |-> <<>>]]
    ELSE [status |-> "ok",
          tensor |-> [shape |-> Append(Front(x.shape), width),
                      rows |-> [r \in 1..Len(x.rows) |-> _model_row(x.rows[r], width)]]]

\* features property
features(order) == IF order # None THEN order[1] ELSE InputNames
\* outputs property
outputs(order) == IF order # None THEN order[1] ELSE OutputNames

----------------------------------------------------------------------------
(* Tensors *)

EmptyTensor == [shape |-> <<>>, rows |-> <<>>]

\* tensor.squeeze(): every axis of length 1 is dropped, the data kept
squeeze(t) == [shape |-> SelectSeq(t.shape, LAMBDA d : d # 1), data |-> t.data]

\* tensor.unsqueeze(-1).shape
unsqueeze_last_shape(t) == Append(t.shape, 1)

\* torch.tile(vec, reps) for a 1-d vec and reps = (*batch, k): the result has
\* shape (*batch, k * len(vec)), every row being vec repeated k times
RECURSIVE Repeat(_, _)
Repeat(vec, k) == IF k = 0 THEN <<>> ELSE vec \o Repeat(vec, k - 1)

tile(vec, reps) ==
    LET k == reps[Len(reps)]
        batch == Front(reps)
    IN  [shape |-> Append(batch, k * Len(vec)),
         rows |-> [r \in 1..Product(batch) |-> Repeat(vec, k)]]

\* whether a value of shape src can be assigned to a slice of shape dst
\* (torch broadcasting: trailing axes are aligned, each equal or 1)
Broadcastable(src, dst) ==
    /\ Len(src) <= Len(dst)
    /\ \A k \in 0..(Len(src) - 1) :
           src[Len(src) - k] \in {1, dst[Len(dst) - k]}

\* default_tensor[..., idx] = value, for a value that broadcasts
SetSlice(t, idx, value) ==
    [shape |-> t.shape,
     rows |-> [r \in 1..Len(t.rows) |->
                 [t.rows[r] EXCEPT ![idx] =
                     IF Len(value.data) = 1 THEN value.data[1] ELSE value.data[r]]]]

\* tensor[..., idx].squeeze() of a tensor of rank >= 2
Column(t, idx) ==
    squeeze([shape |-> Front(t.shape),
             data |-> [r \in 1..Len(t.rows) |-> t.rows[r][idx]]])

\* transformer(x) on a tensor: elementwise, the shape kept
forward(transformer, x) ==
    [shape |-> x.shape,
     rows |-> [r \in 1..Len(x.rows) |->
                 [c \in 1..Len(x.rows[r]) |-> transform(transformer, x.rows[r][c])]]]

\* transformer.untransform(x) on a tensor: elementwise, the shape kept
inverse(transformer, x) ==
    [shape |-> x.shape,
     rows |-> [r \in 1..Len(x.rows) |->
                 [c \in 1..Len(x.rows[r]) |-> untransform(transformer, x.rows[r][c])]]]

----------------------------------------------------------------------------
(* _prepare_inputs *)

\* as PrepareInputsItem, with dim() read before the squeeze
PrepareInputsItemDimBeforeSqueeze(acc, var_name, var) ==
    CASE var.kind \in {"variable", "float"} ->
           [model_vals |-> Append(acc.model_vals,
                                  [name |-> var_name,
                                   value |-> [shape |-> <<>>, data |-> var.data]]),
            values |-> [acc.values EXCEPT ![var_name] = Some(var.data[1])]]
      [] var.kind = "tensor" ->
           [model_vals |-> Append(acc.model_vals,
                                  [name |-> var_name, value |-> squeeze(var)]),
            values |-> IF Len(var.shape) = 0
                       THEN [acc.values EXCEPT ![var_name] = Some(var.data[1])]
                       ELSE acc.values]
      [] OTHER -> acc

\* as PrepareInputsItem, a tensor's first record stored whatever its rank
PrepareInputsItemFirstRecord(acc, var_name, var) ==
    CASE var.kind \in {"variable", "float"} ->
           [model_vals |-> Append(acc.model_vals,
                                  [name |-> var_name,
                                   value |-> [shape |-> <<>>, data |-> var.data]]),
            values |-> [acc.values EXCEPT ![var_name] = Some(var.data[1])]]
      [] var.kind = "tensor" ->
           [model_vals |-> Append(acc.model_vals,
                                  [name |-> var_name, value |-> squeeze(var)]),
            values |-> [acc.values EXCEPT ![var_name] = Some(var.data[1])]]
      [] OTHER -> acc

\* the loop body for one (var_name, var) item; acc = [model_vals, values]
PrepareInputsItem(acc, var_name, var) ==
    CASE var.kind = "variable" ->
           \* isinstance(var, InputVariable)
           [model_vals |-> Append(acc.model_vals,
                                  [name |-> var_name,
                                   value |-> [shape |-> <<>>, data |-> var.data]]),
            values |-> [acc.values EXCEPT ![var_name] = Some(var.data[1])]]
      [] var.kind = "float" ->
           [model_vals |-> Append(acc.model_vals,
                                  [name |-> var_name,
                                   value |-> [shape |-> <<>>, data |-> var.data]]),
            values |-> [acc.values EXCEPT ![var_name] = Some(var.data[1])]]
      [] var.kind = "tensor" ->
           LET v == squeeze(var)
           IN  [model_vals |-> Append(acc.model_vals,
                                      [name |-> var_name, value |-> v]),
                values |-> IF Len(v.shape) = 0
                           THEN [acc.values EXCEPT ![var_name] = Some(v.data[1])]
                           ELSE acc.values]
      [] OTHER ->
           \* a TypeError object is constructed and dropped: nothing is raised,
           \* nothing is stored for this name
           acc

RECURSIVE PrepareInputsLoop(_, _, _)
PrepareInputsLoop(inp, i, acc) ==
    IF i > Len(inp) THEN acc
    ELSE PrepareInputsLoop(inp, i + 1, PrepareInputsItem(acc, inp[i].name, inp[i].var))

\* returns the name -> tensor items (in the argument's key order) and the
\* input variables' values after the call
_prepare_inputs(inp, values) ==
    PrepareInputsLoop(inp, 1, [model_vals |-> <<>>, values |-> values])

----------------------------------------------------------------------------
(* _arrange_inputs *)

Raise(error) == [status |-> error, tensor |-> EmptyTensor]

RECURSIVE ArrangeLoop(_, _, _, _)
ArrangeLoop(model_vals, i, default_tensor, feats) ==
    IF i > Len(model_vals) THEN [status |-> "ok", tensor |-> default_tensor]
    ELSE LET key == model_vals[i].name
             value == model_vals[i].value
         IN  IF key \notin Range(feats) THEN Raise("ValueError")
             ELSE LET feature_idx == Index(feats, key)
                  IN  IF feature_idx > default_tensor.shape[Len(default_tensor.shape)]
                      THEN Raise("IndexError")
                      ELSE IF ~Broadcastable(value.shape, Front(default_tensor.shape))
                      THEN Raise("RuntimeError")
                      ELSE ArrangeLoop(model_vals, i + 1,
                                       SetSlice(default_tensor, feature_idx, value),
                                       feats)

\* the shape the default tensor is tiled to: that of the first item
incoming_shape(model_vals) == unsqueeze_last_shape(model_vals[1].value)

_arrange_inputs(model_vals, feats) ==
    IF Len(model_vals) = 0 THEN Raise("IndexError")
    ELSE LET default_tensor == tile(default_values, incoming_shape(model_vals))
             filled == ArrangeLoop(model_vals, 1, default_tensor, feats)
         IN  IF filled.status # "ok" THEN filled
             ELSE IF filled.tensor.shape[Len(filled.tensor.shape)] # Len(feats)
             THEN Raise("ValueError")
             ELSE filled

----------------------------------------------------------------------------
(* _transform_inputs, _transform_outputs *)

RECURSIVE TransformInputsLoop(_, _, _)
TransformInputsLoop(chain, i, input_values) ==
    IF i > Len(chain) THEN input_values
    ELSE TransformInputsLoop(chain, i + 1,
                             forward(chain[i], input_values))

\* as _transform_inputs, walking the list from its end
RECURSIVE TransformInputsReversed(_, _)
TransformInputsReversed(chain, input_values) ==
    IF chain = <<>> THEN input_values
    ELSE TransformInputsReversed(Front(chain),
             forward(chain[Len(chain)], input_values))

_transform_inputs(chain, input_values) == TransformInputsLoop(chain, 1, input_values)

RECURSIVE TransformOutputsLoop(_, _, _)
TransformOutputsLoop(chain, i, model_output) ==
    IF i > Len(chain) THEN model_output
    ELSE TransformOutputsLoop(chain, i + 1,
                              inverse(chain[i], model_output))

_transform_outputs(chain, model_output) == TransformOutputsLoop(chain, 1, model_output)

----------------------------------------------------------------------------
(* _parse_outputs *)

NoResult == [n \in {} |-> None]

RECURSIVE ParseOutputsLoop(_, _, _, _)
ParseOutputsLoop(model_output, outs, idx, output) ==
    IF idx > Len(outs) THEN [status |-> "ok", output |-> output]
    ELSE IF idx > model_output.shape[Len(model_output.shape)]
    THEN [status |-> "IndexError", output |-> NoResult]
    ELSE ParseOutputsLoop(model_output, outs, idx + 1,
                          (outs[idx] :> Column(model_output, idx)) @@ output)

_parse_outputs(model_output, outs) ==
    LET promoted == IF Len(model_output.shape) \in {0, 1}
                    THEN [shape |-> <<1>> \o model_output.shape,
                          rows |-> model_output.rows]
                    ELSE model_output
    IN  ParseOutputsLoop(promoted, outs, 1, NoResult)

----------------------------------------------------------------------------
(* _prepare_outputs *)

\* as UpdatedValue, with the rank test off by one
UpdatedValueRankOne(predicted, type, old) ==
    IF Len(predicted.shape) = 1 /\ type = "scalar"
    THEN Some(predicted.data[1])
    ELSE old

\* the value stored for one output variable
UpdatedValue(predicted, type, old) ==
    IF Len(predicted.shape) = 0 /\ type = "scalar"
    THEN Some(predicted.data[1])
    ELSE old

\* the four bound fields of an output variable, in the order
\* _update_image_limits goes through them
LimitFields == <<"x_min", "x_max", "y_min", "y_max">>

\* four bound fields (or four references) that are all None
NoLimits == [f \in Range(LimitFields) |-> None]

\* _update_image_limits: every field whose reference is set takes
\* predicted_output[reference].item(); refs and lim are the references and
\* the bound fields of the one variable
RECURSIVE UpdateImageLimitsLoop(_, _, _, _)
UpdateImageLimitsLoop(refs, predicted_output, i, lim) ==
    IF i > Len(LimitFields) THEN [status |-> "ok", limits |-> lim]
    ELSE LET f == LimitFields[i]
         IN  IF refs[f] = None
             THEN UpdateImageLimitsLoop(refs, predicted_output, i + 1, lim)
             ELSE IF refs[f][1] \notin DOMAIN predicted_output
             THEN [status |-> "KeyError", limits |-> lim]
             ELSE IF Product(predicted_output[refs[f][1]].shape) # 1
             THEN [status |-> "RuntimeError", limits |-> lim]
             ELSE UpdateImageLimitsLoop(refs, predicted_output, i + 1,
                      [lim EXCEPT ![f] = Some(predicted_output[refs[f][1]].data[1])])

_update_image_limits(refs, predicted_output, lim) ==
    UpdateImageLimitsLoop(refs, predicted_output, 1, lim)

\* predicted.reshape(variable.shape).numpy(): the reshape needs as many
\* elements as the shape holds, and numpy() a tensor that does not require
\* grad
ImageValue(predicted, shape, requires_grad) ==
    IF Product(shape) # Product(predicted.shape) \/ requires_grad
    THEN [status |-> "RuntimeError", value |-> None]
    ELSE [status |-> "ok",
          value |-> Some([shape |-> shape, data |-> predicted.data])]

\* the loop body for one output variable; acc = [status, values, limits]
PrepareOutputsItem(self, predicted_output, name, acc) ==
    IF name \notin DOMAIN predicted_output
    THEN [acc EXCEPT !.status = "KeyError"]
    ELSE IF /\ Len(predicted_output[name].shape) = 0
            /\ self.variable_type[name] = "image"
    THEN LET image == ImageValue(predicted_output[name], self.image_shape[name],
                                 self.model_out_grad)
             updated == _update_image_limits(self.limit_variable[name],
                                             predicted_output, acc.limits[name])
         IN  IF image.status # "ok"
             THEN [acc EXCEPT !.status = image.status]
             ELSE [status |-> updated.status,
                   values |-> [acc.values EXCEPT ![name] = image.value],
                   limits |-> [acc.limits EXCEPT ![name] = updated.limits]]
    ELSE [acc EXCEPT !.values[name] =
              UpdatedValue(predicted_output[name], self.variable_type[name], @)]

RECURSIVE PrepareOutputsLoop(_, _, _, _)
PrepareOutputsLoop(self, predicted_output, i, acc) ==
    IF i > Len(OutputNames) \/ acc.status # "ok" THEN acc
    ELSE PrepareOutputsLoop(self, predicted_output, i + 1,
             PrepareOutputsItem(self, predicted_output, OutputNames[i], acc))

\* the returned dictionary, by self._output_format["type"]
Render(format, predicted_output, values) ==
    IF format = "tensor" THEN predicted_output
    ELSE IF format = "variable"
    THEN [n \in DOMAIN values |-> [name |-> n, value |-> values[n]]]
    ELSE [n \in DOMAIN values |-> values[n]]

_prepare_outputs(self, predicted_output) ==
    LET updated == PrepareOutputsLoop(self, predicted_output, 1,
                       [status |-> "ok", values |-> self.output_variables,
                        limits |-> self.limits])
    IN  IF updated.status # "ok"
        THEN [status |-> updated.status, values |-> updated.values,
              limits |-> updated.limits, result |-> NoResult]
        ELSE [status |-> "ok", values |-> updated.values,
              limits |-> updated.limits,
              result |-> Render(self.output_format, predicted_output,
                                updated.values)]

----------------------------------------------------------------------------
(* evaluate *)

\* what one evaluate call leaves behind; the stages after a raising one do
\* not run
Outcome(status, result, in_values, out_values, out_limits, arranged, feats, raw, transformed) ==
    [status |-> status, result |-> result,
     input_variables |-> in_values, output_variables |-> out_values,
     limits |-> out_limits,
     arranged |-> arranged, features |-> feats,
     raw_output |-> raw, transformed_output |-> transformed,
     \* no stage of the pipeline calls the logger
     log |-> <<>>]

evaluate(self, inp) ==
    LET prepared == _prepare_inputs(inp, self.input_variables)
        arranged == _arrange_inputs(prepared.model_vals, features(self.feature_order))
        feats == _transform_inputs(self.in_chain, arranged.tensor)
        raw == _model(feats, self.model_out_width)
        transformed == _transform_outputs(self.out_chain, raw.tensor)
        parsed == _parse_outputs(transformed, outputs(self.output_order))
        rendered == _prepare_outputs(self, parsed.output)
    IN  IF arranged.status # "ok"
        THEN Outcome(arranged.status, NoResult, prepared.values,
                     self.output_variables, self.limits, EmptyTensor,
                     EmptyTensor, EmptyTensor, EmptyTensor)
        ELSE IF raw.status # "ok"
        THEN Outcome(raw.status, NoResult, prepared.values,
                     self.output_variables, self.limits, arranged.tensor,
                     feats, EmptyTensor, EmptyTensor)
        ELSE IF parsed.status # "ok"
        THEN Outcome(parsed.status, NoResult, prepared.values,
                     self.output_variables, self.limits, arranged.tensor,
                     feats, raw.tensor, transformed)
        ELSE Outcome(rendered.status, rendered.result, prepared.values,
                     rendered.values, rendered.limits, arranged.tensor,
                     feats, raw.tensor, transformed)

----------------------------------------------------------------------------
(* The transformer lists and the device change *)

\* as ListInsert, placing x after the element at loc instead of before it
ListInsertAfter(seq, loc, x) ==
    LET n == Len(seq)
        shifted == IF loc < 0 THEN loc + n ELSE loc
        at == IF shifted + 1 > n THEN n ELSE IF shifted + 1 < 0 THEN 0 ELSE shifted + 1
    IN  SubSeq(seq, 1, at) \o <<x>> \o SubSeq(seq, at + 1, n)

\* list.insert(loc, x): a negative loc counts from the end, and loc is
\* clamped to the list
ListInsert(seq, loc, x) ==
    LET n == Len(seq)
        shifted == IF loc < 0 THEN loc + n ELSE loc
        at == IF shifted < 0 THEN 0 ELSE IF shifted > n THEN n ELSE shifted
    IN  SubSeq(seq, 1, at) \o <<x>> \o SubSeq(seq, at + 1, n)

\* the input_transformers / output_transformers getters
input_chain(inst) == lists[input_transformers[inst]]
output_chain(inst) == lists[output_transformers[inst]]

\* to(device): the .to() calls run in order -- the model, every transformer
\* of the input list then of the output list, the default values -- and at
\* last self.device is assigned.  fail_at = k > 0: the k-th .to() call
\* raises and nothing after it runs; fail_at = 0: none raises.
to(s, chain, d, fail_at) ==
    LET n == Len(chain)
        done(k) == fail_at = 0 \/ k < fail_at
    IN  [model_device |-> IF done(1) THEN d ELSE s.model_device,
         transformer_device |->
             [t \in DOMAIN s.transformer_device |->
                 IF \E i \in 1..n : chain[i] = t /\ done(i + 1)
                 THEN d ELSE s.transformer_device[t]],
         default_device |-> IF done(n + 2) THEN d ELSE s.default_device,
         device |-> IF fail_at = 0 THEN d ELSE s.device]

DeviceState ==
    [model_device |-> model_device, transformer_device |-> transformer_device,
     default_device |-> default_device, device |-> device]

----------------------------------------------------------------------------
(* The arguments of evaluate *)

Shapes == {<<>>} \cup {<<b>> : b \in 1..MaxBatch}

\* a supplied tensor: the records of a batch are v, v + 1, ...
TensorPayloads ==
    {[kind |-> "tensor", shape |-> sh,
      data |-> [i \in 1..Product(sh) |-> v + i - 1]] : sh \in Shapes, v \in Values}

Payloads ==
    {[kind |-> k, shape |-> <<>>, data |-> <<v>>] :
         k \in {"variable", "float"}, v \in Values}
    \cup TensorPayloads
    \cup {[kind |-> "other", shape |-> <<>>, data |-> <<>>]}

Items == {[name |-> n, var |-> p] : n \in Range(InputNames), p \in Payloads}

\* a dictionary, as its items in key order
InputDicts ==
    {<<>>} \cup {<<e>> : e \in Items}
    \cup {<<e[1], e[2]>> : e \in {p \in Items \X Items : p[1].name # p[2].name}}

Permutation(s) == {<<s[1], s[2]>>, <<s[2], s[1]>>}

Orders(names) == {None} \cup {Some(p) : p \in Permutation(names)}

----------------------------------------------------------------------------
(* State machine *)

\* the instance evaluate and to() are called on
Self ==
    [input_variables |-> input_variables, output_variables |-> output_variables,
     variable_type |-> variable_type, output_format |-> output_format,
     feature_order |-> feature_order, output_order |-> output_order,
     model_out_width |-> model_out_width, model_out_grad |-> model_out_grad,
     image_shape |-> image_shape, limit_variable |-> limit_variable,
     limits |-> limits,
     in_chain |-> input_chain("m1"), out_chain |-> output_chain("m1")]

NoCall ==
    [made |-> FALSE, input |-> <<>>, status |-> "none", result |-> NoResult,
     arranged |-> EmptyTensor, features |-> EmptyTensor,
     raw_output |-> EmptyTensor, transformed_output |-> EmptyTensor,
     log |-> <<>>]

\* __init__: every transformer of the lists passed in is moved to the device;
\* the network loaded from model_file produces rows of the given width
ConstructedFrom(dev, width) ==
    /\ device = dev
    /\ model_device = dev
    /\ default_device = dev
    /\ transformer_device =
           [t \in Transformers |->
               IF \E inst \in Instances :
                      t \in Range(input_chain(inst)) \cup Range(output_chain(inst))
               THEN dev ELSE "cpu"]
    /\ model_out_width = width
    /\ call = NoCall

\* __init__ with a network that has one output column per output variable
Constructed(dev) == ConstructedFrom(dev, Len(OutputNames))

\* the variables' values right after construction
Fresh ==
    [input_variables |-> [n \in Range(InputNames) |-> None],
     output_variables |-> [n \in Range(OutputNames) |-> None],
     limits |-> [n \in Range(OutputNames) |-> NoLimits]]

\* output variables none of which names another one for its bounds, and a
\* network whose output tracks gradients as its input does
PlainOutputs ==
    /\ image_shape = [n \in Range(OutputNames) |-> <<>>]
    /\ limit_variable = [n \in Range(OutputNames) |-> NoLimits]
    /\ model_out_grad = TRUE

\* an earlier evaluate call, which left its values in the variables
EarlierInput ==
    <<[name |-> "x1", var |-> [kind |-> "float", shape |-> <<>>, data |-> <<MaxVal>>]],
      [name |-> "x2", var |-> [kind |-> "float", shape |-> <<>>, data |-> <<0>>]]>>

\* the variables' values: fresh, or as an earlier call left them
VariablesAfter(earlier) ==
    LET fresh == [input_variables |-> Fresh.input_variables,
                  output_variables |-> Fresh.output_variables,
                  variable_type |-> variable_type, output_format |-> output_format,
                  feature_order |-> feature_order, output_order |-> output_order,
                  model_out_width |-> model_out_width,
                  model_out_grad |-> model_out_grad,
                  image_shape |-> image_shape, limit_variable |-> limit_variable,
                  limits |-> Fresh.limits,
                  in_chain |-> input_chain("m1"), out_chain |-> output_chain("m1")]
        out == evaluate(fresh, EarlierInput)
    IN  IF earlier
        THEN /\ input_variables = out.input_variables
             /\ output_variables = out.output_variables
             /\ limits = out.limits
        ELSE /\ input_variables = Fresh.input_variables
             /\ output_variables = Fresh.output_variables
             /\ limits = Fresh.limits

\* model.evaluate(inp), the one call under observation
Evaluate(inp) ==
    /\ ~call.made
    /\ \E out \in {evaluate(Self, inp)} :
        /\ input_variables' = out.input_variables
        /\ output_variables' = out.output_variables
        /\ limits' = out.limits
        /\ call' = [made |-> TRUE, input |-> inp, status |-> out.status,
                    result |-> out.result, arranged |-> out.arranged,
                    features |-> out.features, raw_output |-> out.raw_output,
                    transformed_output |-> out.transformed_output,
                    log |-> out.log]
        /\ UNCHANGED <<device, model_device, default_device, transformer_device,
                       variable_type, output_format, feature_order, output_order,
                       model_out_width, lists, input_transformers,
                       output_transformers, image_shape, limit_variable,
                       model_out_grad>>

\* model.input_transformers = (transformer, loc)
InsertInputTransformer(inst, transformer, loc) ==
    /\ Len(input_chain(inst)) < MaxChain
    /\ lists' = [lists EXCEPT ![input_transformers[inst]] =
                     ListInsert(@, loc, transformer)]
    /\ UNCHANGED <<device, model_device, default_device, transformer_device,
                   input_variables, output_variables, variable_type,
                   output_format, feature_order, output_order, model_out_width,
                   input_transformers, output_transformers, call,
                   image_shape, limit_variable, limits, model_out_grad>>

\* model.output_transformers = (transformer, loc)
InsertOutputTransformer(inst, transformer, loc) ==
    /\ Len(output_chain(inst)) < MaxChain
    /\ lists' = [lists EXCEPT ![output_transformers[inst]] =
                     ListInsert(@, loc, transformer)]
    /\ UNCHANGED <<device, model_device, default_device, transformer_device,
                   input_variables, output_variables, variable_type,
                   output_format, feature_order, output_order, model_out_width,
                   input_transformers, output_transformers, call,
                   image_shape, limit_variable, limits, model_out_grad>>

\* model.to(d)
To(d, fail_at) ==
    \E s \in {to(DeviceState, input_chain("m1") \o output_chain("m1"), d, fail_at)} :
        /\ model_device' = s.model_device
        /\ transformer_device' = s.transformer_device
        /\ default_device' = s.default_device
        /\ device' = s.device
        /\ UNCHANGED <<input_variables, output_variables, variable_type,
                       output_format, feature_order, output_order,
                       model_out_width, lists, input_transformers,
                       output_transformers, call, image_shape, limit_variable,
                       limits, model_out_grad>>

----------------------------------------------------------------------------
(* Spec: evaluate calls on a constructed pipeline, over its configurations *)

Init ==
    /\ variable_type \in {[y1 |-> "scalar", y2 |-> "scalar"],
                          [y1 |-> "scalar", y2 |-> "array"]}
    /\ output_format \in {"tensor", "variable", "raw"}
    /\ feature_order \in Orders(InputNames)
    /\ output_order \in Orders(OutputNames)
    /\ input_transformers = [inst \in Instances |-> "in_a"]
    /\ output_transformers = [inst \in Instances |-> "out_a"]
    /\ \E chains \in {<<<<>>, <<>>>>, <<<<"T1">>, <<"T2">>>>} :
           lists = [default_in |-> <<>>, default_out |-> <<>>,
                    in_a |-> chains[1], out_a |-> chains[2]]
    /\ PlainOutputs
    /\ Constructed("cpu")
    /\ \E earlier \in BOOLEAN : VariablesAfter(earlier)

Next == \E inp \in InputDicts : Evaluate(inp)

Spec == Init /\ [][Next]_vars

----------------------------------------------------------------------------
(* Properties of evaluate *)

Supplied(inp) == {inp[i].name : i \in 1..Len(inp)}

\* every supplied payload is a variable object, a float or a tensor
ValidPayloads(inp) == \A i \in 1..Len(inp) : inp[i].var.kind # "other"

\* a payload holding exactly one number
SingleScalar(p) ==
    \/ p.kind \in {"variable", "float"}
    \/ p.kind = "tensor" /\ Product(p.shape) = 1

\* no supplied tensor holds more than one record
Unbatched(inp) ==
    \A i \in 1..Len(inp) : inp[i].var.kind = "tensor" => Product(inp[i].var.shape) = 1

\* the features of the feature order that inp leaves out, in feature order
Missing(inp) == SelectSeq(features(feature_order), LAMBDA n : n \notin Supplied(inp))

\* inp, with every feature it leaves out supplied as that feature's default
FilledWithDefaults(inp) ==
    inp \o [i \in 1..Len(Missing(inp)) |->
               [name |-> Missing(inp)[i],
                var |-> [kind |-> "float", shape |-> <<>>,
                         data |-> <<default[Missing(inp)[i]]>>]]]

\* what the caller sees of a call: whether it returned, and what
Returned(status, result) == [ok |-> status = "ok", result |-> result]

\* C1 (default-fill): a call that supplies only some of the features returns
\* what the call returns that supplies all of them, the others set to their
\* own defaults.
C1_DefaultFill ==
    (call.made /\ ValidPayloads(call.input)) =>
        \A filled \in {evaluate(Self, FilledWithDefaults(call.input))} :
            Returned(filled.status, filled.result)
                = Returned(call.status, call.result)

\* C1 again, for the calls that supply at least one feature: it fails there
\* too, under a feature order that is not the dictionary's iteration order.
C1_DefaultFillSomeSupplied ==
    (call.made /\ ValidPayloads(call.input) /\ Len(call.input) > 0) =>
        \A filled \in {evaluate(Self, FilledWithDefaults(call.input))} :
            Returned(filled.status, filled.result)
                = Returned(call.status, call.result)

\* the warnings of the log that name feature n as missing
MissingWarnings(log, n) ==
    {i \in 1..Len(log) : log[i].level = "WARNING" /\ log[i].missing = n}

\* C2 (missing input): a call that supplies some features and leaves a
\* feature out logs exactly one warning per missing feature, none for a
\* supplied one, and returns a result.
C2_MissingInputWarned ==
    (/\ call.made /\ ValidPayloads(call.input)
     /\ Len(call.input) > 0 /\ Len(Missing(call.input)) > 0) =>
        /\ \A n \in Range(features(feature_order)) :
               Cardinality(MissingWarnings(call.log, n))
                   = IF n \in Supplied(call.input) THEN 0 ELSE 1
        /\ call.status = "ok"

\* the number this call produced for output n: its column of the
\* untransformed model output
Produced(n) == call.transformed_output.rows[1][Index(outputs(output_order), n)]

\* C3 (state sync): after a completed call with unbatched inputs, every input
\* variable supplied as a single scalar holds that scalar, and every
\* scalar-typed output variable holds the number this call produced, as a
\* plain number, under every output format.
C3_StateSync ==
    (call.made /\ call.status = "ok" /\ Unbatched(call.input)) =>
        /\ \A i \in 1..Len(call.input) :
               SingleScalar(call.input[i].var) =>
                   input_variables[call.input[i].name]
                       = Some(call.input[i].var.data[1])
        /\ \A n \in Range(OutputNames) :
               variable_type[n] = "scalar" =>
                   output_variables[n] = Some(Produced(n))

\* a rank-0 tensor arriving with an extra axis is synced, and the outputs
\* replaced what an earlier call had left
C3_Witness ==
    /\ call.made /\ call.status = "ok" /\ Unbatched(call.input)
    /\ \E i \in 1..Len(call.input) :
           call.input[i].var.kind = "tensor" /\ call.input[i].var.shape = <<1>>
    /\ output_format = "raw"
    /\ output_variables["y1"] = Some(Produced("y1"))
    /\ output_variables["y2"] = Some(Produced("y2"))

Reversed(s) == [i \in 1..Len(s) |-> s[Len(s) + 1 - i]]

\* C4 (key order): the outcome of a call -- the result, or that it fails --
\* is the same with the keys of the dictionary in any other order.
C4_KeyOrderIndependent ==
    call.made =>
        \A other \in {evaluate(Self, Reversed(call.input))} :
            Returned(other.status, other.result)
                = Returned(call.status, call.result)

\* C5 (inconsistent shapes): a call given two tensors of different shapes
\* (after the squeeze) fails and returns nothing.
C5_InconsistentShapeRaises ==
    (/\ call.made
     /\ \E i, j \in 1..Len(call.input) :
            /\ call.input[i].var.kind = "tensor"
            /\ call.input[j].var.kind = "tensor"
            /\ SelectSeq(call.input[i].var.shape, LAMBDA d : d # 1)
                   # SelectSeq(call.input[j].var.shape, LAMBDA d : d # 1))
        => (call.status # "ok" /\ call.result = NoResult)

\* C6 (type mismatch): a call given a payload that is no variable object,
\* float or tensor fails and returns nothing (stated for any error raised,
\* a TypeError included).
C6_TypeMismatchRaises ==
    (call.made /\ ~ValidPayloads(call.input))
        => (call.status # "ok" /\ call.result = NoResult)

\* the result of the same call under another output format
ResultAs(format) == evaluate([Self EXCEPT !.output_format = format], call.input).result

\* C7 (format round trip): for an unbatched input, the "raw" and the
\* "tensor" result name the same outputs, and raw[n] = tensor[n].item() for
\* every scalar output n.
C7_FormatRoundTrip ==
    (/\ call.made /\ call.status = "ok" /\ Unbatched(call.input)
     /\ output_format \in {"raw", "tensor"}) =>
        \A raw \in {IF output_format = "raw" THEN call.result ELSE ResultAs("raw")} :
        \A tensor \in {IF output_format = "tensor" THEN call.result
                       ELSE ResultAs("tensor")} :
            /\ DOMAIN raw = DOMAIN tensor
            /\ \A n \in DOMAIN raw :
                   variable_type[n] = "scalar" =>
                       /\ tensor[n].shape = <<>>
                       /\ raw[n] = Some(tensor[n].data[1])

C7_Witness ==
    /\ call.made /\ call.status = "ok" /\ Unbatched(call.input)
    /\ output_format = "raw"
    /\ variable_type["y2"] = "scalar"
    /\ call.result["y1"] # None /\ call.result["y2"] # None
    /\ output_order = Some(<<"y2", "y1">>)

----------------------------------------------------------------------------
(* SpecTransform: the transformer lists are filled, then evaluate is called *)

SeqsUpTo(S, n) == UNION {[1..k -> S] : k \in 0..n}

InitTransform ==
    /\ variable_type = [y1 |-> "scalar", y2 |-> "scalar"]
    /\ output_format = "tensor"
    /\ feature_order = None
    /\ output_order = None
    /\ input_transformers = [m1 |-> "in_a", m2 |-> "default_in"]
    /\ output_transformers = [m1 |-> "out_a", m2 |-> "default_out"]
    /\ lists = [default_in |-> <<>>, default_out |-> <<>>,
                in_a |-> <<>>, out_a |-> <<>>]
    /\ PlainOutputs
    /\ Constructed("cpu")
    /\ VariablesAfter(FALSE)

NextTransform ==
    \/ /\ ~call.made
       /\ \E t \in Transformers, loc \in 0..MaxChain :
              InsertInputTransformer("m1", t, loc)
    \/ /\ ~call.made
       /\ \E t \in Transformers, loc \in 0..MaxChain :
              InsertOutputTransformer("m1", t, loc)
    \/ \E inp \in InputDicts : Evaluate(inp)

SpecTransform == InitTransform /\ [][NextTransform]_vars

\* t_n( ... t_1(x) ... ) for chain = <<t_1, ..., t_n>>, on one number
RECURSIVE ForwardNested(_, _)
ForwardNested(chain, x) ==
    IF chain = <<>> THEN x
    ELSE transform(chain[Len(chain)], ForwardNested(Front(chain), x))

\* u_1's inverse first, ..., u_m's inverse last, on one number
RECURSIVE InverseInListOrder(_, _)
InverseInListOrder(chain, x) ==
    IF chain = <<>> THEN x
    ELSE untransform(chain[Len(chain)], InverseInListOrder(Front(chain), x))

SameShape(a, b) ==
    /\ a.shape = b.shape
    /\ Len(a.rows) = Len(b.rows)
    /\ \A r \in 1..Len(a.rows) : Len(a.rows[r]) = Len(b.rows[r])

\* C8 (transform chain order): the model is given t_n(...t_1(arranged)), the
\* disassembler the raw output with the inverses of u_1, ..., u_m applied in
\* that order; an empty list leaves the tensor as it is.
C8_TransformChainOrder ==
    (call.made /\ call.status = "ok") =>
        /\ SameShape(call.features, call.arranged)
        /\ \A r \in 1..Len(call.arranged.rows) :
           \A c \in 1..Len(call.arranged.rows[r]) :
               call.features.rows[r][c]
                   = ForwardNested(input_chain("m1"), call.arranged.rows[r][c])
        /\ SameShape(call.transformed_output, call.raw_output)
        /\ \A r \in 1..Len(call.raw_output.rows) :
           \A c \in 1..Len(call.raw_output.rows[r]) :
               call.transformed_output.rows[r][c]
                   = InverseInListOrder(output_chain("m1"), call.raw_output.rows[r][c])
        /\ input_chain("m1") = <<>> => call.features = call.arranged
        /\ output_chain("m1") = <<>> => call.transformed_output = call.raw_output

\* a call through two different transformers on either side, whose order
\* shows in the numbers
C8_Witness ==
    /\ call.made /\ call.status = "ok"
    /\ input_chain("m1") = <<"T1", "T2">>
    /\ output_chain("m1") = <<"T2", "T1">>
    /\ call.features # call.arranged
    /\ call.transformed_output # call.raw_output

----------------------------------------------------------------------------
(* SpecChain: transformers are inserted into the lists of two pipelines *)

InitChain ==
    /\ variable_type = [y1 |-> "scalar", y2 |-> "scalar"]
    /\ output_format = "tensor"
    /\ feature_order = None
    /\ output_order = None
    \* m1: each list argument is left to its default, or is the caller's
    \* list; m2: both are left to their defaults
    /\ \E ref \in {"default_in", "in_a"} :
           input_transformers = [m1 |-> ref, m2 |-> "default_in"]
    /\ \E ref \in {"default_out", "out_a"} :
           output_transformers = [m1 |-> ref, m2 |-> "default_out"]
    /\ \E a \in SeqsUpTo(Transformers, 1), b \in SeqsUpTo(Transformers, 1) :
           lists = [default_in |-> <<>>, default_out |-> <<>>,
                    in_a |-> a, out_a |-> b]
    /\ PlainOutputs
    /\ Constructed("cpu")
    /\ VariablesAfter(FALSE)

NextChain ==
    \/ \E inst \in Instances, t \in Transformers, loc \in -1..MaxChain :
           InsertInputTransformer(inst, t, loc)
    \/ \E inst \in Instances, t \in Transformers, loc \in -1..MaxChain :
           InsertOutputTransformer(inst, t, loc)

SpecChain == InitChain /\ [][NextChain]_vars

\* new is old with t put at position i (counted from 0)
InsertedAt(old, new, t, i) ==
    /\ Len(new) = Len(old) + 1
    /\ new[i + 1] = t
    /\ \A k \in 1..i : new[k] = old[k]
    /\ \A k \in (i + 1)..Len(old) : new[k + 1] = old[k]

\* C9 (insert at index): an insert of t at i, 0 <= i <= the list's length,
\* makes the list one longer with t at i, the elements before i in place and
\* those from i on shifted by one, and leaves the other list of the pipeline
\* as it was; the getter returns that list.
C9_InsertAtIndex ==
    [][\A inst \in Instances, t \in Transformers, i \in 0..MaxChain :
          /\ (i <= Len(input_chain(inst)) /\ InsertInputTransformer(inst, t, i)) =>
                 /\ InsertedAt(input_chain(inst), input_chain(inst)', t, i)
                 /\ output_chain(inst)' = output_chain(inst)
          /\ (i <= Len(output_chain(inst)) /\ InsertOutputTransformer(inst, t, i)) =>
                 /\ InsertedAt(output_chain(inst), output_chain(inst)', t, i)
                 /\ input_chain(inst)' = input_chain(inst)]_vars

\* T2 was inserted in front of T1, and the output list was left alone
C9_Witness ==
    /\ input_chain("m1") = <<"T2", "T1">>
    /\ output_chain("m1") = <<>>
    /\ output_transformers["m1"] = "out_a"

----------------------------------------------------------------------------
(* SpecDevice: to(device) calls, any of whose .to() calls may raise *)

InitDevice ==
    /\ variable_type = [y1 |-> "scalar", y2 |-> "scalar"]
    /\ output_format = "tensor"
    /\ feature_order = None
    /\ output_order = None
    /\ input_transformers = [inst \in Instances |-> "in_a"]
    /\ output_transformers = [inst \in Instances |-> "out_a"]
    /\ \E a \in SeqsUpTo(Transformers, MaxChain), b \in SeqsUpTo(Transformers, MaxChain) :
           lists = [default_in |-> <<>>, default_out |-> <<>>,
                    in_a |-> a, out_a |-> b]
    /\ PlainOutputs
    /\ \E dev \in Devices : Constructed(dev)
    /\ VariablesAfter(FALSE)

NextDevice ==
    \E d \in Devices :
    \E fail_at \in 0..(Len(input_chain("m1")) + Len(output_chain("m1")) + 2) :
        To(d, fail_at)

SpecDevice == InitDevice /\ [][NextDevice]_vars

\* the model, the default values and every transformer of both lists are on
\* the device self.device names
OnOneDevice(s, chain) ==
    /\ s.model_device = s.device
    /\ s.default_device = s.device
    /\ \A t \in Range(chain) : s.transformer_device[t] = s.device

\* C10 (device change): whether a to(device) call completes or raises, the
\* model, the transformers, the default values and self.device are left on
\* one device; and to(d) twice leaves what to(d) once leaves.
C10_DeviceAllOrNothing ==
    \A chain \in {input_chain("m1") \o output_chain("m1")} :
        /\ OnOneDevice(DeviceState, chain)
        /\ \A d \in Devices :
               to(to(DeviceState, chain, d, 0), chain, d, 0)
                   = to(DeviceState, chain, d, 0)

----------------------------------------------------------------------------
(* SpecWidth: evaluate calls on pipelines whose feature order, output order *)
(* and network need not agree in width                                     *)

\* feature orders of one, two and three names
FeatureOrders ==
    Orders(InputNames) \cup {Some(<<"x1">>), Some(<<"x1", "x2", "x3">>)}

\* output orders of one, two and three names
OutputOrders ==
    Orders(OutputNames) \cup {Some(<<"y1">>), Some(<<"y1", "y2", "y3">>)}

InitWidth ==
    /\ variable_type = [y1 |-> "scalar", y2 |-> "scalar"]
    /\ output_format \in {"tensor", "variable", "raw"}
    /\ feature_order \in FeatureOrders
    /\ output_order \in OutputOrders
    /\ input_transformers = [inst \in Instances |-> "in_a"]
    /\ output_transformers = [inst \in Instances |-> "out_a"]
    /\ lists = [default_in |-> <<>>, default_out |-> <<>>,
                in_a |-> <<>>, out_a |-> <<>>]
    /\ PlainOutputs
    /\ \E width \in 1..MaxWidth : ConstructedFrom("cpu", width)
    /\ VariablesAfter(FALSE)

NextWidth == \E inp \in InputDicts : Evaluate(inp)

SpecWidth == InitWidth /\ [][NextWidth]_vars

\* the number of columns the network expects
expected_in_width == Len(InputNames)

\* C11 (width invariant): a call on a pipeline whose feature order has not as
\* many names as the network expects columns, or whose output order has not
\* as many names as the network produces columns (fewer or more), fails and
\* returns nothing.
C11_WidthEnforced ==
    (/\ call.made
     /\ \/ Len(features(feature_order)) # expected_in_width
        \/ Len(outputs(output_order)) # model_out_width)
        => (call.status # "ok" /\ call.result = NoResult)

\* C11, the feature side alone
C11_FeatureWidthEnforced ==
    (call.made /\ Len(features(feature_order)) # expected_in_width)
        => (call.status # "ok" /\ call.result = NoResult)

\* C11, more output names than output columns
C11_MoreNamesThanColumns ==
    (call.made /\ Len(outputs(output_order)) > model_out_width)
        => (call.status # "ok" /\ call.result = NoResult)

----------------------------------------------------------------------------
(* SpecBatch: evaluate calls, batched ones included, on pipelines with an   *)
(* image-typed output variable and variables that already hold values      *)

\* the references of an image variable to the outputs that bound it
LimitReferences ==
    {NoLimits,
     [NoLimits EXCEPT !.x_min = Some("y1"), !.y_max = Some("y1")],
     [NoLimits EXCEPT !.x_max = Some("y3")]}

\* values and bounds the variables were constructed with; no call produces
\* any of them
Stored(shape) ==
    [input_variables |-> [n \in Range(InputNames) |-> Some(MaxVal + 1)],
     output_variables |->
         [n \in Range(OutputNames) |->
             IF variable_type[n] = "image"
             THEN Some([shape |-> shape, data |-> [k \in 1..Product(shape) |-> 0]])
             ELSE Some(-1)],
     limits |-> [n \in Range(OutputNames) |->
                    [f \in Range(LimitFields) |-> Some(-1)]]]

InitBatch ==
    /\ variable_type \in {[y1 |-> "scalar", y2 |-> "scalar"],
                          [y1 |-> "scalar", y2 |-> "image"]}
    /\ \E shape \in {<<1, 1>>, <<2, 2>>} :
           /\ image_shape = [y1 |-> <<>>, y2 |-> shape]
           /\ \E given \in {Fresh, Stored(shape)} :
                  /\ input_variables = given.input_variables
                  /\ output_variables = given.output_variables
                  /\ limits = given.limits
    /\ \E refs \in LimitReferences :
           limit_variable = [y1 |-> NoLimits, y2 |-> refs]
    /\ model_out_grad \in BOOLEAN
    /\ output_format \in {"tensor", "variable", "raw"}
    /\ feature_order = None
    /\ output_order = None
    /\ input_transformers = [inst \in Instances |-> "in_a"]
    /\ output_transformers = [inst \in Instances |-> "out_a"]
    /\ lists = [default_in |-> <<>>, default_out |-> <<>>,
                in_a |-> <<>>, out_a |-> <<>>]
    /\ Constructed("cpu")

NextBatch == \E inp \in InputDicts : Evaluate(inp)

SpecBatch == InitBatch /\ [][NextBatch]_vars

\* a tensor payload that has rank >= 1 after the squeeze
BatchedPayload(p) ==
    p.kind = "tensor" /\ \E k \in 1..Len(p.shape) : p.shape[k] # 1

\* the rank of every disassembled value: the axes of t before its last one
\* that are longer than 1
DisassembledRank(t) == Cardinality({k \in 1..(Len(t.shape) - 1) : t.shape[k] # 1})

\* C12 (batched evaluation): an evaluate call leaves unchanged the value of
\* every input variable supplied as a tensor of rank >= 1 after the squeeze,
\* and the value and the bound fields of every output variable when the
\* disassembled values have rank >= 1; an input variable is written only if
\* its entry is a single scalar, an output variable only if its disassembled
\* value has rank 0.
C12_BatchedLeavesState ==
    [][call'.made =>
          /\ \A i \in 1..Len(call'.input) :
                 BatchedPayload(call'.input[i].var) =>
                     input_variables'[call'.input[i].name]
                         = input_variables[call'.input[i].name]
          /\ \A n \in Range(OutputNames) :
                 DisassembledRank(call'.transformed_output) >= 1 =>
                     /\ output_variables'[n] = output_variables[n]
                     /\ limits'[n] = limits[n]
          /\ \A n \in Range(InputNames) :
                 input_variables'[n] # input_variables[n] =>
                     \E i \in 1..Len(call'.input) :
                         /\ call'.input[i].name = n
                         /\ SingleScalar(call'.input[i].var)
          /\ \A n \in Range(OutputNames) :
                 (output_variables'[n] # output_variables[n] \/ limits'[n] # limits[n])
                     => /\ call'.raw_output # EmptyTensor
                        /\ DisassembledRank(call'.transformed_output) = 0]_vars

\* a completed call with x1 batched and x2 a scalar: x2 was written, while
\* x1, the outputs and the bounds of the image output hold what they were
\* constructed with
C12_Witness ==
    /\ call.made /\ call.status = "ok"
    /\ \E i, j \in 1..Len(call.input) :
           /\ call.input[i].name = "x1" /\ BatchedPayload(call.input[i].var)
           /\ call.input[j].name = "x2" /\ SingleScalar(call.input[j].var)
           /\ input_variables["x2"] = Some(call.input[j].var.data[1])
    /\ input_variables["x1"] = Some(MaxVal + 1)
    /\ variable_type["y2"] = "image"
    /\ limit_variable["y2"]["x_min"] = Some("y1")
    /\ DisassembledRank(call.transformed_output) >= 1
    /\ output_variables = Stored(image_shape["y2"]).output_variables
    /\ limits = Stored(image_shape["y2"]).limits

\* an unbatched call stored the image and the two bounds that name y1
ImageStored ==
    /\ call.made /\ call.status = "ok"
    /\ variable_type["y2"] = "image"
    /\ output_variables["y2"] = Some([shape |-> <<1, 1>>,
                                      data |-> <<call.transformed_output.rows[1][2]>>])
    /\ limits["y2"] = [x_min |-> Some(call.transformed_output.rows[1][1]),
                       x_max |-> Some(-1), y_min |-> Some(-1),
                       y_max |-> Some(call.transformed_output.rows[1][1])]

----------------------------------------------------------------------------
(* SpecShared: two pipelines, each constructed without transformer lists   *)
(* or from the caller's lists, and transformers inserted into either       *)

InitShared ==
    /\ variable_type = [y1 |-> "scalar", y2 |-> "scalar"]
    /\ output_format = "tensor"
    /\ feature_order = None
    /\ output_order = None
    \* each list argument of each pipeline is left to its default, or is the
    \* caller's list
    /\ input_transformers \in [Instances -> {"default_in", "in_a"}]
    /\ output_transformers \in [Instances -> {"default_out", "out_a"}]
    /\ \E a \in SeqsUpTo(Transformers, 1), b \in SeqsUpTo(Transformers, 1) :
           lists = [default_in |-> <<>>, default_out |-> <<>>,
                    in_a |-> a, out_a |-> b]
    /\ PlainOutputs
    /\ Constructed("cpu")
    /\ VariablesAfter(FALSE)

SpecShared == InitShared /\ [][NextChain]_vars

\* an insert into a list of inst leaves both lists of other as they were
OtherUntouched(inst, other) ==
    \A t \in Transformers, loc \in -1..MaxChain :
        (InsertInputTransformer(inst, t, loc) \/ InsertOutputTransformer(inst, t, loc))
            => /\ input_chain(other)' = input_chain(other)
               /\ output_chain(other)' = output_chain(other)

\* C13 (chains per instance): an insert into the input or the output list of
\* one pipeline leaves both lists of the other pipeline unchanged, however
\* the two were constructed.
C13_ChainsPerInstance ==
    [][\A inst \in Instances : \A other \in Instances \ {inst} :
          OtherUntouched(inst, other)]_vars

\* C13, for two pipelines both constructed without transformer lists
C13_DefaultLists ==
    [][(/\ input_transformers = [inst \in Instances |-> "default_in"]
        /\ output_transformers = [inst \in Instances |-> "default_out"])
          => \A inst \in Instances : \A other \in Instances \ {inst} :
                 OtherUntouched(inst, other)]_vars

\* C13, for two pipelines both constructed from the caller's two lists
C13_SameCallerLists ==
    [][(/\ input_transformers = [inst \in Instances |-> "in_a"]
        /\ output_transformers = [inst \in Instances |-> "out_a"])
          => \A inst \in Instances : \A other \in Instances \ {inst} :
                 OtherUntouched(inst, other)]_vars

\* C13, for two pipelines that were given no list in common
C13_DistinctLists ==
    [][(/\ input_transformers["m1"] # input_transformers["m2"]
        /\ output_transformers["m1"] # output_transformers["m2"])
          => \A inst \in Instances : \A other \in Instances \ {inst} :
                 OtherUntouched(inst, other)]_vars

----------------------------------------------------------------------------
(* SpecPlacement: completed to(device) calls and inserts into the lists of *)
(* one pipeline                                                            *)

InitPlacement ==
    /\ variable_type = [y1 |-> "scalar", y2 |-> "scalar"]
    /\ output_format = "tensor"
    /\ feature_order = None
    /\ output_order = None
    /\ input_transformers = [inst \in Instances |-> "in_a"]
    /\ output_transformers = [inst \in Instances |-> "out_a"]
    /\ \E a \in SeqsUpTo(Transformers, 1), b \in SeqsUpTo(Transformers, 1) :
           lists = [default_in |-> <<>>, default_out |-> <<>>,
                    in_a |-> a, out_a |-> b]
    /\ PlainOutputs
    /\ \E dev \in Devices : Constructed(dev)
    /\ VariablesAfter(FALSE)

NextPlacement ==
    \/ \E d \in Devices : To(d, 0)
    \/ \E t \in Transformers, loc \in 0..MaxChain :
           InsertInputTransformer("m1", t, loc)
    \/ \E t \in Transformers, loc \in 0..MaxChain :
           InsertOutputTransformer("m1", t, loc)

SpecPlacement == InitPlacement /\ [][NextPlacement]_vars

\* C14 (device consistency): after construction and any completed to(device)
\* calls and inserts, the model, the default values and every transformer in
\* the input and the output list are on the device self.device names.
C14_DeviceConsistent ==
    OnOneDevice(DeviceState, input_chain("m1") \o output_chain("m1"))

\* C14, for the state a completed to(device) call leaves
C14_ToRehomesAll ==
    [][\A d \in Devices :
          To(d, 0) => (OnOneDevice(DeviceState, input_chain("m1") \o output_chain("m1")))']_vars

====
